---- MODULE Spec2Model ----
(***************************************************************************)
(* A model of tianyi_api (src/src/lib.rs): the session builder, the router *)
(* client and its operations, and the router they talk to.  One client is  *)
(* modelled; each action is one HTTP round trip of an operation together   *)
(* with the code that runs up to the next round trip or the return.        *)
(***************************************************************************)
EXTENDS Integers, Sequences, FiniteSets, TLC

(***************************************************************************)
(* Bounds of the model.                                                    *)
(***************************************************************************)
\* The router's rule table has room for this many rules.
MaxRules == 2
\* Mutating operations (set_port_forwarding_rule called by the user,
\* update_port_forwarding_rule) invoked on the client.
MaxOps == 1

(***************************************************************************)
(* Characters and strings.  A text the code indexes or matches is a        *)
(* sequence of one-character strings; an opaque text is a TLA+ string.     *)
(***************************************************************************)
LowerAlpha == {"a", "b", "c", "d", "e", "f", "g", "h", "i", "j", "k", "l", "m",
               "n", "o", "p", "q", "r", "s", "t", "u", "v", "w", "x", "y", "z"}
DigitChars == <<"0", "1", "2", "3", "4", "5", "6", "7", "8", "9">>
DigitSet == {DigitChars[i] : i \in 1..10}

Rep(c, n) == [i \in 1..n |-> c]

\* u16::to_string (lib.rs:321-322): the decimal digits, most significant first.
RECURSIVE to_string(_)
to_string(n) ==
    IF n < 10 THEN <<DigitChars[n + 1]>>
    ELSE Append(to_string(n \div 10), DigitChars[(n % 10) + 1])

(***************************************************************************)
(* Constants of the library.                                               *)
(***************************************************************************)
DEFAULT_IP == "192.168.1.1"
DEFAULT_UNAME == "useradmin"
DEFAULT_UPWD == ""

\* format!("http://{}", ip)
Url(ip) == <<"http://", ip>>
\* format!("{}/cgi-bin/...", self.url)
Endpoint(url, path) == <<url, path>>

LoginPath == "/cgi-bin/luci"
LogoutPath == "/cgi-bin/luci/admin/logout"
GwinfoPath == "/cgi-bin/luci/admin/settings/gwinfo"
PmDisplayPath == "/cgi-bin/luci/admin/settings/pmDisplay"
PmSetSinglePath == "/cgi-bin/luci/admin/settings/pmSetSingle"

(***************************************************************************)
(* The token pattern of Tianyi::new: token: '([a-z0-9]{32})'               *)
(***************************************************************************)
TokenPrefix == <<"t", "o", "k", "e", "n", ":", " ", "'">>
TokenLen == 32

\* The character class [a-z0-9].
IsTokenChar(c) == c \in LowerAlpha \cup DigitSet

\* The regex matches with its first character at position i of text.
\* (Variant: the closing quote is not required.)
MatchAt_NoClose(text, i) ==
    /\ i + Len(TokenPrefix) + TokenLen - 1 <= Len(text)
    /\ SubSeq(text, i, i + Len(TokenPrefix) - 1) = TokenPrefix
    /\ \A k \in 0..(TokenLen - 1) : IsTokenChar(text[i + Len(TokenPrefix) + k])
MatchAt(text, i) ==
    /\ i + Len(TokenPrefix) + TokenLen <= Len(text)
    /\ SubSeq(text, i, i + Len(TokenPrefix) - 1) = TokenPrefix
    /\ \A k \in 0..(TokenLen - 1) : IsTokenChar(text[i + Len(TokenPrefix) + k])
    /\ text[i + Len(TokenPrefix) + TokenLen] = "'"

\* The leftmost position at or after i where the regex matches, 0 if none.
RECURSIVE FindFrom(_, _)
FindFrom(text, i) ==
    IF i > Len(text) THEN 0
    ELSE IF MatchAt(text, i) THEN i
    ELSE FindFrom(text, i + 1)

\* re.captures(&text): <<>> is None, <<g>> is Some with capture group 1 = g.
Captures(text) ==
    LET i == FindFrom(text, 1) IN
    IF i = 0 THEN <<>>
    ELSE <<SubSeq(text, i + Len(TokenPrefix), i + Len(TokenPrefix) + TokenLen - 1)>>

(***************************************************************************)
(* PortForwardingAction and its wire token.                                *)
(***************************************************************************)
Actions == {"Add", "Enable", "Disable", "Delete"}

\* (Variant: Delete is spelled out.)
as_str_Long(action) ==
    CASE action = "Add" -> "add"
      [] action = "Enable" -> "enable"
      [] action = "Disable" -> "disable"
      [] action = "Delete" -> "delete"
as_str(action) ==
    CASE action = "Add" -> "add"
      [] action = "Enable" -> "enable"
      [] action = "Disable" -> "disable"
      [] action = "Delete" -> "del"

(***************************************************************************)
(* PortForwardingRule values.  A rule is a record of the struct's fields.  *)
(***************************************************************************)
IpA == "192.168.1.11"
IpB == "192.168.1.12"
Ips == {IpA, IpB}

Rule(protocol, in_port, enable, description, client, ex_port) ==
    [protocol |-> protocol, in_port |-> in_port, enable |-> enable,
     description |-> description, client |-> client, ex_port |-> ex_port]

\* The rules a router may hold at the start: the rule of the documented
\* example, a disabled rule for the same client, and a rule for another
\* client that repeats a description.
RuleUniverse ==
    << Rule("tcp", 80, 1, "web", IpA, 8080),
       Rule("udp", 53, 0, "dns", IpA, 5353),
       Rule("tcp", 443, 0, "web", IpB, 8443) >>

Descriptions == {RuleUniverse[i].description : i \in 1..Len(RuleUniverse)}

\* rng.gen::<f64>().to_string(): a fresh value per call.
RandStrs == {"0.25"}

(***************************************************************************)
(* Request payloads, as maps from the wire's field names to values.        *)
(***************************************************************************)
LoginPayload(username, password) ==
    ("username" :> username) @@ ("psd" :> password)

\* (Variant: the token is left out.)
LogoutPayload_NoToken(token, rand) ==
    ("token" :> <<>>) @@ ("_" :> rand)
LogoutPayload(token, rand) ==
    ("token" :> token) @@ ("_" :> rand)

GwinfoPayload(rand) ==
    ("get" :> "part") @@ ("_" :> rand)

PmDisplayPayload(rand) ==
    ("_" :> rand)

\* The form of set_port_forwarding_rule; rule is <<>> (None) or <<r>> (Some).
SetPayload(action, srvname, rule, token, rand) ==
    LET base == ("srvname" :> srvname) @@ ("token" :> token)
                @@ ("op" :> as_str(action)) @@ ("_" :> rand)
    IN IF rule = <<>> THEN base
       ELSE base @@ ("client" :> rule[1].client)
                 @@ ("protocol" :> rule[1].protocol)
                 @@ ("exPort" :> to_string(rule[1].ex_port))
                 @@ ("inPort" :> to_string(rule[1].in_port))

(***************************************************************************)
(* The router: the table of rules it holds, keyed by an identifier of its  *)
(* own, the session it has issued, and what it does with a request.        *)
(***************************************************************************)
\* The router reads a port back from its decimal digits.
DigitValue(c) == CHOOSE d \in 0..9 : DigitChars[d + 1] = c
RECURSIVE ParsePort(_)
ParsePort(s) ==
    IF Len(s) = 0 THEN 0
    ELSE 10 * ParsePort(SubSeq(s, 1, Len(s) - 1)) + DigitValue(s[Len(s)])

RouterIds(rt) == {e.id : e \in rt}
FreshId(rt) == CHOOSE n \in 1..(Cardinality(rt) + 1) :
                  /\ n \notin RouterIds(rt)
                  /\ \A m \in 1..(n - 1) : m \in RouterIds(rt)

\* Return codes of a refused mutation.
RejectCodes == {1}

\* The router's session accepts the token of a request.
RouterAuth(rs, pl) == rs /= <<>> /\ pl["token"] = rs[1]

\* The tables a mutation request may leave behind when the router accepts
\* it.  The form carries no enable field: an added rule gets the flag en the
\* router gives new rules.  A full table takes no rule.  A description shared
\* by several rules leaves the choice of the rule a del, enable or disable
\* acts on to the router.
RouterAccepts(rt, en, pl) ==
    LET named == {e \in rt : e.rule.description = pl["srvname"]}
        op == pl["op"]
    IN CASE op = "add" ->
              IF "client" \in DOMAIN pl /\ Cardinality(rt) < MaxRules
              THEN {rt \cup {[id |-> FreshId(rt),
                              rule |-> Rule(pl["protocol"], ParsePort(pl["inPort"]), en,
                                            pl["srvname"], pl["client"],
                                            ParsePort(pl["exPort"]))]}}
              ELSE {}
         [] op = "del" -> {rt \ {e} : e \in named}
         [] op = "enable" ->
              {(rt \ {e}) \cup {[e EXCEPT !.rule.enable = 1]} : e \in named}
         [] op = "disable" ->
              {(rt \ {e}) \cup {[e EXCEPT !.rule.enable = 0]} : e \in named}
         [] OTHER -> {}

\* Every answer of the router to a mutation request: the return code and the
\* table afterwards.
RouterSet(rt, rs, en, pl) ==
    {[retVal |-> 0, rt |-> t] :
        t \in IF RouterAuth(rs, pl) THEN RouterAccepts(rt, en, pl) ELSE {}}
    \cup {[retVal |-> c, rt |-> rt] : c \in RejectCodes}

\* The login pages the router may answer with: the text of the page and the
\* session token the router issued with it (<<>>: none).
TokA == Rep("a", TokenLen)
TokB == [i \in 1..TokenLen |-> IF i % 2 = 0 THEN "7" ELSE "f"]
Page(pre, tok, post) == pre \o TokenPrefix \o tok \o post

LoginPages ==
    { [text |-> Page(<<"{", " ">>, TokA, <<"'", ",", "}">>), issued |-> <<TokA>>],
      [text |-> Page(<<>>, TokB, <<"'">>), issued |-> <<TokB>>],
      \* two tokens on the page
      [text |-> Page(<<>>, TokB, <<"'", ";">>) \o Page(<<>>, TokA, <<"'">>),
       issued |-> <<TokB>>],
      \* a malformed token followed by a well-formed one
      [text |-> Page(<<>>, Rep("a", TokenLen - 1), <<"'", ";">>)
                \o Page(<<>>, TokA, <<"'">>),
       issued |-> <<TokA>>],
      \* the login was refused: no token on the page
      [text |-> <<"l", "o", "g", "i", "n">>, issued |-> <<>>],
      [text |-> <<>>, issued |-> <<>>],
      \* tokens of another shape: too short, too long, an upper-case letter,
      \* the closing quote missing
      [text |-> Page(<<>>, Rep("a", TokenLen - 1), <<"'">>),
       issued |-> <<Rep("a", TokenLen - 1)>>],
      [text |-> Page(<<>>, Rep("a", TokenLen + 1), <<"'">>),
       issued |-> <<Rep("a", TokenLen + 1)>>],
      [text |-> Page(<<>>, [TokA EXCEPT ![5] = "A"], <<"'">>),
       issued |-> <<[TokA EXCEPT ![5] = "A"]>>],
      [text |-> Page(<<>>, TokA, <<>>), issued |-> <<TokA>>],
      [text |-> Page(<<>>, TokA, <<";", "'">>), issued |-> <<TokA>>] }

\* The orders in which a table's rules may come out of the HashMap.
Orders(rt) ==
    LET n == Cardinality(rt)
        fs == {f \in [1..n -> rt] : \A i, j \in 1..n : i /= j => f[i] /= f[j]}
    IN {[i \in 1..n |-> f[i].rule] : f \in fs}

\* The tables a router may start with.
InitialTables ==
    {{[id |-> i, rule |-> RuleUniverse[i]] : i \in S} :
        S \in {T \in SUBSET (1..Len(RuleUniverse)) : Cardinality(T) <= MaxRules}}

(***************************************************************************)
(* update_port_forwarding_rule, as the steps between its round trips.  The *)
(* locals of a run are a record u: old_ip, new_ip, rules (the fetched      *)
(* list), idx (the position of the first loop), updated_rules, addIdx (the *)
(* position of the second loop).                                           *)
(***************************************************************************)
NoLocals == [old_ip |-> "", new_ip |-> "", rules |-> <<>>, idx |-> 0,
             updated_rules |-> <<>>, addIdx |-> 0]

\* (Variant: the clone keeps its client.)
UpdatedRule_Same(rule, new_ip) == rule
\* updated_rule = rule.clone(); updated_rule.client = new_ip.to_string()
UpdatedRule(rule, new_ip) == [rule EXCEPT !.client = new_ip]

\* (Variant: the loop takes every rule.)
NextMatch_Any(rules, from, old_ip) ==
    IF from <= Len(rules) THEN from ELSE 0
\* (Variant: the comparison is inverted.)
NextMatch_Inverted(rules, from, old_ip) ==
    LET hits == {j \in from..Len(rules) : rules[j].client /= old_ip}
    IN IF hits = {} THEN 0 ELSE CHOOSE j \in hits : \A k \in hits : j <= k
\* The first position at or after from whose rule passes
\* `if rule.client == old_ip`; 0 when the loop runs out.
NextMatch(rules, from, old_ip) ==
    LET hits == {j \in from..Len(rules) : rules[j].client = old_ip}
    IN IF hits = {} THEN 0 ELSE CHOOSE j \in hits : \A k \in hits : j <= k

\* (Variant: a return code other than 0 is an error.)
SetReturn_Checked(outcome, answer) ==
    IF outcome = "ok" /\ answer = 0 THEN [ok |-> TRUE, ret_val |-> answer]
    ELSE [ok |-> FALSE, ret_val |-> 0]
\* What set_port_forwarding_rule returns: Err when send or json failed,
\* otherwise Ok with the ActionResult as the router sent it.
SetReturn(outcome, answer) ==
    IF outcome = "ok" THEN [ok |-> TRUE, ret_val |-> answer]
    ELSE [ok |-> FALSE, ret_val |-> 0]

\* The first loop from position from, up to its next Delete call; when the
\* loop runs out, on to the second loop's first Add call or to Ok(()).
RunLoop(u, from) ==
    LET j == NextMatch(u.rules, from, u.old_ip) IN
    IF j /= 0
    THEN [pc |-> "deleting", result |-> "pending",
          upd |-> [u EXCEPT !.idx = j,
                            !.updated_rules =
                                Append(@, UpdatedRule(u.rules[j], u.new_ip))]]
    ELSE IF u.updated_rules = <<>>
    THEN [pc |-> "idle", result |-> "Ok",
          upd |-> [u EXCEPT !.idx = Len(u.rules) + 1]]
    ELSE [pc |-> "adding", result |-> "pending",
          upd |-> [u EXCEPT !.idx = Len(u.rules) + 1, !.addIdx = 1]]

\* self.get_port_forwarding_rules().await? and what follows it.
AfterFetch(ok, rules, u) ==
    IF ~ok THEN [pc |-> "idle", result |-> "Err", upd |-> u]
    ELSE RunLoop([u EXCEPT !.rules = rules], 1)

\* (Variant: the error of a Delete is dropped.)
AfterDelete_IgnoreErr(ret, u) == RunLoop(u, u.idx + 1)
\* self.set_port_forwarding_rule(Delete, ...).await? and what follows it.
AfterDelete(ret, u) ==
    IF ~ret.ok THEN [pc |-> "idle", result |-> "Err", upd |-> u]
    ELSE RunLoop(u, u.idx + 1)

\* (Variant: the second loop ends after its first Add.)
AfterAdd_OneOnly(ret, u) ==
    IF ~ret.ok THEN [pc |-> "idle", result |-> "Err", upd |-> u]
    ELSE [pc |-> "idle", result |-> "Ok", upd |-> [u EXCEPT !.addIdx = @ + 1]]
\* self.set_port_forwarding_rule(Add, ...).await? and what follows it.
AfterAdd(ret, u) ==
    IF ~ret.ok THEN [pc |-> "idle", result |-> "Err", upd |-> u]
    ELSE IF u.addIdx = Len(u.updated_rules)
    THEN [pc |-> "idle", result |-> "Ok", upd |-> [u EXCEPT !.addIdx = @ + 1]]
    ELSE [pc |-> "adding", result |-> "pending",
          upd |-> [u EXCEPT !.addIdx = @ + 1]]

(***************************************************************************)
(* The state.                                                              *)
(***************************************************************************)
VARIABLES
    router,         \* the router's table: a set of [id, rule]
    routerSession,  \* the token of the session the router holds, <<>> or <<t>>
    routerEnable,   \* the enable flag the router gives a rule it adds
    session,        \* the Tianyi value: <<>> or <<[url, token]>>
    pc,             \* "idle", or where update_port_forwarding_rule waits
    op,             \* the operation invoked last
    result,         \* "none", "pending", "Ok" or "Err"
    action_result,  \* the ret_val set_port_forwarding_rule returned last
    reqLog,         \* the requests of the operation invoked last, in order
    upd,            \* the locals of update_port_forwarding_rule
    lastBody,       \* the login page Tianyi::new read last, <<>> or <<text>>
    router0,        \* the router's table when the operation was invoked
    opCount

vars == <<router, routerSession, routerEnable, session, pc, op, result, action_result,
          reqLog, upd, lastBody, router0, opCount>>

Hosts == {DEFAULT_IP}
Usernames == {DEFAULT_UNAME}
Passwords == {DEFAULT_UPWD}

Init ==
    /\ router \in InitialTables
    /\ routerSession = <<>>
    /\ routerEnable \in {0, 1}
    /\ session = <<>>
    /\ pc = "idle"
    /\ op = "none"
    /\ result = "none"
    /\ action_result = 0
    /\ reqLog = <<>>
    /\ upd = NoLocals
    /\ lastBody = <<>>
    /\ router0 = router
    /\ opCount = 0

\* A request as logged: what was sent and how the round trip ended.
LogEntry(kind, method, url, payload, outcome) ==
    [kind |-> kind, method |-> method, url |-> url, payload |-> payload,
     outcome |-> outcome]

\* A mutation request as logged, with the action and the rule the caller
\* passed and the return code the router sent.
SetEntry(action, rule, url, payload, outcome, answer) ==
    [kind |-> "set", method |-> "POST", url |-> url, payload |-> payload,
     outcome |-> outcome, action |-> action, rule |-> rule,
     answer |-> IF outcome = "ok" THEN answer ELSE 0]

(***************************************************************************)
(* TianyiBuilder::build and Tianyi::new.                                   *)
(***************************************************************************)
\* What Tianyi::new makes of the page it read: <<>> for the error
\* "Failed to parse token", else the client.
NewFromText(url, text) ==
    LET caps == Captures(text) IN
    IF caps = <<>> THEN <<>> ELSE <<[url |-> url, token |-> caps[1]]>>

Build ==
    /\ pc = "idle"
    /\ session = <<>>
    /\ \E ip \in Hosts, username \in Usernames, password \in Passwords,
          page \in LoginPages, outcome \in {"ok", "send_err", "body_err"} :
         LET url == Url(ip) IN
         /\ reqLog' = <<LogEntry("login", "POST", Endpoint(url, LoginPath),
                                 LoginPayload(username, password), outcome)>>
         /\ \/ routerSession' = page.issued
            \/ outcome = "send_err" /\ routerSession' = routerSession
         /\ lastBody' = IF outcome = "ok" THEN <<page.text>> ELSE <<>>
         /\ session' = IF outcome = "ok" THEN NewFromText(url, page.text) ELSE <<>>
         /\ result' = IF session' = <<>> THEN "Err" ELSE "Ok"
    /\ op' = "build"
    /\ router0' = router
    /\ UNCHANGED <<router, routerEnable, pc, action_result, upd, opCount>>

\* Client::builder()...build()? fails: no request is sent.
BuildNoClient ==
    /\ pc = "idle"
    /\ session = <<>>
    /\ reqLog' = <<>>
    /\ lastBody' = <<>>
    /\ result' = "Err"
    /\ op' = "build"
    /\ router0' = router
    /\ UNCHANGED <<router, routerEnable, routerSession, session, pc, action_result, upd, opCount>>

\* An operation is invoked: a client exists and no operation is running.
Invoke(name) ==
    /\ pc = "idle"
    /\ session /= <<>>
    /\ op' = name
    /\ opCount' = IF name \in {"set", "update"} THEN opCount + 1 ELSE opCount
    /\ name \in {"set", "update"} => opCount < MaxOps
    /\ router0' = router
    /\ lastBody' = <<>>

(***************************************************************************)
(* logout, gwinfo, get_port_forwarding_rules, set_port_forwarding_rule.    *)
(***************************************************************************)
Logout ==
    /\ Invoke("logout")
    /\ \E rand \in RandStrs, outcome \in {"ok", "status_err", "send_err"} :
         LET pl == LogoutPayload(session[1].token, rand) IN
         /\ reqLog' = <<LogEntry("logout", "POST",
                                 Endpoint(session[1].url, LogoutPath), pl, outcome)>>
         /\ \/ routerSession' = IF RouterAuth(routerSession, pl) THEN <<>>
                                ELSE routerSession
            \/ outcome /= "ok" /\ routerSession' = routerSession
         /\ result' = IF outcome = "ok" THEN "Ok" ELSE "Err"
    /\ upd' = NoLocals
    /\ action_result' = 0
    /\ UNCHANGED <<router, routerEnable, session, pc>>

Gwinfo ==
    /\ Invoke("gwinfo")
    /\ \E rand \in RandStrs, outcome \in {"ok", "send_err", "body_err"} :
         /\ reqLog' = <<LogEntry("gwinfo", "GET",
                                 Endpoint(session[1].url, GwinfoPath),
                                 GwinfoPayload(rand), outcome)>>
         /\ result' = IF outcome = "ok" THEN "Ok" ELSE "Err"
    /\ upd' = NoLocals
    /\ action_result' = 0
    /\ UNCHANGED <<router, routerEnable, routerSession, session, pc>>

\* The request of port_forwarding.
ListEntry(url, rand, outcome) ==
    LogEntry("list", "GET", Endpoint(url, PmDisplayPath), PmDisplayPayload(rand),
             outcome)

GetPortForwardingRules ==
    /\ Invoke("list")
    /\ \E rand \in RandStrs, outcome \in {"ok", "send_err", "body_err"} :
         /\ reqLog' = <<ListEntry(session[1].url, rand, outcome)>>
         /\ result' = IF outcome = "ok" THEN "Ok" ELSE "Err"
         /\ IF outcome = "ok"
            THEN \E order \in Orders(router) : upd' = [NoLocals EXCEPT !.rules = order]
            ELSE upd' = NoLocals
    /\ action_result' = 0
    /\ UNCHANGED <<router, routerEnable, routerSession, session, pc>>

\* One round trip of set_port_forwarding_rule: the entry logged, what the
\* call returns, and the router's table afterwards.
SetRoundTrips(action, srvname, rule) ==
    LET url == Endpoint(session[1].url, PmSetSinglePath) IN
    { [entry |-> SetEntry(action, rule, url, pl, outcome, o.retVal),
       ret |-> SetReturn(outcome, o.retVal),
       rt |-> o.rt] :
         <<pl, o, outcome>> \in
           UNION {UNION {{<<p, a, oc>> : oc \in {"ok", "send_err", "body_err"}} :
                         a \in RouterSet(router, routerSession, routerEnable, p)} :
                  p \in {SetPayload(action, srvname, rule, session[1].token, rand) :
                         rand \in RandStrs}} }

\* What a caller passes as (srvname, rule): the description of a rule it
\* knows, without the rule or with it.
SetInputs ==
    UNION {{<<r.description, <<>> >>, <<r.description, <<r>> >>} :
           r \in {RuleUniverse[1], RuleUniverse[3]}}

SetPortForwardingRule ==
    /\ Invoke("set")
    /\ \E action \in Actions, input \in SetInputs :
         \E t \in SetRoundTrips(action, input[1], input[2]) :
            /\ reqLog' = <<t.entry>>
            /\ router' = t.rt
            /\ result' = IF t.ret.ok THEN "Ok" ELSE "Err"
            /\ action_result' = t.ret.ret_val
    /\ upd' = NoLocals
    /\ UNCHANGED <<routerSession, routerEnable, session, pc>>

(***************************************************************************)
(* update_port_forwarding_rule.                                            *)
(***************************************************************************)
UpdateStart ==
    /\ Invoke("update")
    /\ \E old_ip \in Ips, new_ip \in Ips, rand \in RandStrs,
          outcome \in {"ok", "send_err", "body_err"} :
         \E order \in IF outcome = "ok" THEN Orders(router) ELSE {<<>>} :
            LET next == AfterFetch(outcome = "ok", order,
                                   [NoLocals EXCEPT !.old_ip = old_ip,
                                                    !.new_ip = new_ip])
            IN /\ reqLog' = <<ListEntry(session[1].url, rand, outcome)>>
               /\ pc' = next.pc
               /\ result' = next.result
               /\ upd' = next.upd
    /\ action_result' = 0
    /\ UNCHANGED <<router, routerEnable, routerSession, session>>

UpdateDelete ==
    /\ pc = "deleting"
    /\ LET rule == upd.rules[upd.idx] IN
       \E t \in SetRoundTrips("Delete", rule.description, <<rule>>) :
          LET next == AfterDelete(t.ret, upd) IN
          /\ reqLog' = Append(reqLog, t.entry)
          /\ router' = t.rt
          /\ pc' = next.pc
          /\ result' = next.result
          /\ upd' = next.upd
    /\ UNCHANGED <<routerSession, routerEnable, session, op, action_result, lastBody, router0,
                   opCount>>

UpdateAdd ==
    /\ pc = "adding"
    /\ LET updated_rule == upd.updated_rules[upd.addIdx] IN
       \E t \in SetRoundTrips("Add", updated_rule.description, <<updated_rule>>) :
          LET next == AfterAdd(t.ret, upd) IN
          /\ reqLog' = Append(reqLog, t.entry)
          /\ router' = t.rt
          /\ pc' = next.pc
          /\ result' = next.result
          /\ upd' = next.upd
    /\ UNCHANGED <<routerSession, routerEnable, session, op, action_result, lastBody, router0,
                   opCount>>

Next ==
    \/ Build
    \/ BuildNoClient
    \/ Logout
    \/ Gwinfo
    \/ GetPortForwardingRules
    \/ SetPortForwardingRule
    \/ UpdateStart
    \/ UpdateDelete
    \/ UpdateAdd

Spec == Init /\ [][Next]_vars

(***************************************************************************)
(* What the properties below read off a state.                             *)
(***************************************************************************)
\* The mutation requests of the operation invoked last, in order.
SetLog == SelectSeq(reqLog, LAMBDA e : e.kind = "set")

\* What a mutation request carries: the rule handed to
\* set_port_forwarding_rule and, on the wire, the fields of the form (the
\* ports read back as numbers).
Carried(e) ==
    [op |-> e.payload["op"], srvname |-> e.payload["srvname"],
     client |-> e.payload["client"], protocol |-> e.payload["protocol"],
     exPort |-> ParsePort(e.payload["exPort"]),
     inPort |-> ParsePort(e.payload["inPort"]),
     rule |-> e.rule]

\* The request the algorithm of the specification issues for rule r.
Wanted(opToken, r, client) ==
    [op |-> opToken, srvname |-> r.description, client |-> client,
     protocol |-> r.protocol, exPort |-> r.ex_port, inPort |-> r.in_port,
     rule |-> <<[protocol |-> r.protocol, in_port |-> r.in_port,
                 enable |-> r.enable, description |-> r.description,
                 client |-> client, ex_port |-> r.ex_port]>>]

\* The rules of the fetched list whose client is old_ip, in the list's order.
Matched == SelectSeq(upd.rules, LAMBDA r : r.client = upd.old_ip)

\* The rules of the router's table, when the operation was invoked, whose
\* client is ip.
Holding(rt, ip) == {e \in rt : e.rule.client = ip}

NumDeletes == Len(SelectSeq(SetLog, LAMBDA e : e.payload["op"] = "del"))
NumAdds == Len(SelectSeq(SetLog, LAMBDA e : e.payload["op"] = "add"))

AllOutcomesOk == \A i \in 1..Len(reqLog) : reqLog[i].outcome = "ok"
AllAccepted == \A i \in 1..Len(SetLog) : SetLog[i].answer = 0

IsPrefix(a, b) == Len(a) <= Len(b) /\ a = SubSeq(b, 1, Len(a))

UpdateReturned == op = "update" /\ pc = "idle"

C1_Case ==
    /\ UpdateReturned
    /\ result = "Ok"
    /\ AllAccepted
    /\ upd.old_ip /= upd.new_ip
    /\ Cardinality(Holding(router0, upd.old_ip)) = 1
    /\ \A e, f \in router0 : e.rule.description = f.rule.description => e = f

(***************************************************************************)
(* C1.  update_port_forwarding_rule(old, new), run to completion against a *)
(* router whose table holds exactly one rule with client old, leaves the   *)
(* router with no rule with client old and exactly one more rule with      *)
(* client new, whose protocol, external port, internal port, enabled flag  *)
(* and description are those of the original rule.  The statement is read  *)
(* in the claim's favour: old and new differ, no two rules of the table    *)
(* share a description, and the router accepted every request.             *)
(***************************************************************************)
C1_UpdateMovesTheRule ==
    C1_Case =>
        LET orig == (CHOOSE e \in Holding(router0, upd.old_ip) : TRUE).rule
            moved == [orig EXCEPT !.client = upd.new_ip]
        IN /\ Holding(router, upd.old_ip) = {}
           /\ Cardinality(Holding(router, upd.new_ip))
                = Cardinality(Holding(router0, upd.new_ip)) + 1
           /\ Cardinality({e \in router : e.rule = moved})
                = Cardinality({e \in router0 : e.rule = moved}) + 1

C2_Case ==
    /\ op = "update"
    /\ reqLog[1].outcome = "ok"
    /\ Holding(router0, upd.old_ip) = {}

(***************************************************************************)
(* C2.  When no rule of the router's table has client old_ip and the list  *)
(* fetch succeeds, update_port_forwarding_rule issues no Delete and no Add *)
(* after the fetch, leaves the table as it was and returns Ok.             *)
(***************************************************************************)
C2_NoMatchIsNoOp ==
    C2_Case =>
        /\ pc = "idle"
        /\ result = "Ok"
        /\ Len(reqLog) = 1
        /\ reqLog[1].kind = "list"
        /\ router = router0

C2_Witness == C2_Case /\ router0 /= {} /\ result = "Ok"

WantedRequests ==
    [i \in 1..Len(Matched) |-> Wanted("del", Matched[i], upd.old_ip)]
    \o [i \in 1..Len(Matched) |-> Wanted("add", Matched[i], upd.new_ip)]

CarriedRequests == [i \in 1..Len(SetLog) |-> Carried(SetLog[i])]

(***************************************************************************)
(* C3.  The requests of a run of update_port_forwarding_rule are: the list *)
(* fetch; then one Delete per rule of the fetched list whose client is     *)
(* old_ip, in the list's order, with that rule's description and fields;   *)
(* then one Add per such rule, with the client replaced by new_ip.  A run  *)
(* that stops early has issued a prefix of that sequence, a run that       *)
(* returns Ok all of it; hence no Add precedes a Delete.  The fields are   *)
(* compared both in the rule handed to set_port_forwarding_rule and in the *)
(* form sent.                                                              *)
(***************************************************************************)
C3_RequestSequence ==
    op = "update" =>
        /\ reqLog[1].kind = "list"
        /\ Len(SetLog) = Len(reqLog) - 1
        /\ IsPrefix(CarriedRequests, WantedRequests)
        /\ result = "Ok" => CarriedRequests = WantedRequests

C3_Witness ==
    /\ UpdateReturned
    /\ result = "Ok"
    /\ Len(Matched) = 2
    /\ upd.old_ip /= upd.new_ip

PatternAt(text, i) ==
    /\ i + 40 <= Len(text)
    /\ <<text[i], text[i + 1], text[i + 2], text[i + 3], text[i + 4]>>
         = <<"t", "o", "k", "e", "n">>
    /\ <<text[i + 5], text[i + 6], text[i + 7]>> = <<":", " ", "'">>
    /\ \A k \in 8..39 : text[i + k] \in LowerAlpha \cup DigitSet
    /\ text[i + 40] = "'"

PatternPlaces(text) == {i \in 1..Len(text) : PatternAt(text, i)}

(***************************************************************************)
(* C4.  Tianyi::new, once it has read the login page, produces a client    *)
(* exactly when the page contains token: '<32 characters of a-z0-9>'; the  *)
(* client's token is then the 32 characters of the leftmost occurrence,    *)
(* and otherwise the call fails and no client exists.                      *)
(***************************************************************************)
C4_TokenDecidesConstruction ==
    (op = "build" /\ lastBody /= <<>>) =>
        LET text == lastBody[1]
            places == PatternPlaces(text)
        IN IF places = {}
           THEN session = <<>> /\ result = "Err"
           ELSE LET first == CHOOSE i \in places : \A j \in places : i <= j
                IN /\ session /= <<>>
                   /\ result = "Ok"
                   /\ session[1].token = [k \in 1..32 |-> text[first + 7 + k]]

C4_Witness ==
    /\ op = "build"
    /\ lastBody /= <<>>
    /\ Cardinality(PatternPlaces(lastBody[1])) = 2
    /\ session /= <<>>

Applied(opToken) ==
    Len(SelectSeq(SetLog, LAMBDA e : /\ e.payload["op"] = opToken
                                     /\ e.outcome = "ok"
                                     /\ e.answer = 0))
Failed(opToken) ==
    Len(SelectSeq(SetLog, LAMBDA e : /\ e.payload["op"] = opToken
                                     /\ e.outcome /= "ok"))

(***************************************************************************)
(* C6.  A round trip that fails ends the operation at once with an error:  *)
(* a failed request is the last request of its operation (no retry, no     *)
(* later request, no compensating request), the operation has returned     *)
(* Err, and an operation returns Err only so.  The router's table is then  *)
(* what the requests of the run made of it: it has lost one rule per       *)
(* accepted Delete and gained one per accepted Add, the failed request     *)
(* counting or not as the router did or did not act on it.                 *)
(***************************************************************************)
C6_FailureEndsTheOperation ==
    op \notin {"none", "build"} =>
        /\ \A i \in 1..Len(reqLog) :
              reqLog[i].outcome /= "ok" =>
                 i = Len(reqLog) /\ pc = "idle" /\ result = "Err"
        /\ result = "Err" => reqLog[Len(reqLog)].outcome /= "ok"
        /\ op = "update" =>
              LET size == Cardinality(router0) - Applied("del") + Applied("add")
              IN /\ Failed("del") + Failed("add") <= 1
                 /\ size - Failed("del") <= Cardinality(router)
                 /\ Cardinality(router) <= size + Failed("add")

C6_Witness ==
    /\ UpdateReturned
    /\ result = "Err"
    /\ NumDeletes = 2
    /\ NumAdds = 1
    /\ \A i \in 1..2 : SetLog[i].outcome = "ok" /\ SetLog[i].answer = 0
    /\ Cardinality(router) < Cardinality(router0)

WireToken ==
    [a \in Actions |->
        IF a = "Add" THEN "add"
        ELSE IF a = "Enable" THEN "enable"
        ELSE IF a = "Disable" THEN "disable"
        ELSE "del"]

(***************************************************************************)
(* C7.  The four actions map one-to-one to the wire tokens add, enable,    *)
(* disable and del, and the op field of every mutation request is the      *)
(* token of the action the caller passed.                                  *)
(***************************************************************************)
C7_ActionEncoding ==
    /\ \A a, b \in Actions : as_str(a) = as_str(b) => a = b
    /\ {as_str(a) : a \in Actions} = {"add", "enable", "disable", "del"}
    /\ \A i \in 1..Len(SetLog) :
          /\ SetLog[i].action \in Actions
          /\ SetLog[i].payload["op"] = WireToken[SetLog[i].action]

C7_Witness ==
    /\ op = "set"
    /\ SetLog[1].action = "Delete"
    /\ SetLog[1].payload["op"] = "del"
    /\ result = "Ok"

(***************************************************************************)
(* C8, as claimed.  Every operation of the client (gwinfo, the rule list,  *)
(* set_port_forwarding_rule, update_port_forwarding_rule, logout) makes    *)
(* exactly one round trip per invocation.                                  *)
(***************************************************************************)
C8_OneRoundTripEach ==
    (pc = "idle" /\ op \in {"gwinfo", "list", "set", "update", "logout"}) =>
        Len(reqLog) = 1

(***************************************************************************)
(* C8, amended.  gwinfo, the rule list, set_port_forwarding_rule and       *)
(* logout make exactly one round trip per invocation;                      *)
(* update_port_forwarding_rule makes the list fetch and then one Delete    *)
(* and one Add round trip per rule of the table whose client is old_ip:    *)
(* 1 + 2k when it returns Ok, between 1 and 1 + 2k when it returns Err.    *)
(***************************************************************************)
C8_RoundTrips ==
    /\ op \in {"gwinfo", "list", "set", "logout"} =>
          /\ Len(reqLog) = 1
          /\ reqLog[1].kind = op
          /\ pc = "idle"
    /\ op = "update" =>
          LET k == Cardinality(Holding(router0, upd.old_ip)) IN
          /\ 1 <= Len(reqLog)
          /\ Len(reqLog) <= 1 + 2 * k
          /\ (pc = "idle" /\ result = "Ok") => Len(reqLog) = 1 + 2 * k

C8_Witness ==
    /\ UpdateReturned
    /\ result = "Ok"
    /\ Len(reqLog) = 5

CarriesSession(e, ses) ==
    /\ e.url[1] = ses.url
    /\ e.kind \in {"set", "logout"} => e.payload["token"] = ses.token

(***************************************************************************)
(* C9.  The session does not change after construction: no step of any     *)
(* operation, failed or not, logout included, changes the client's url or  *)
(* token, which are the ones Tianyi::new took from the login; and every    *)
(* logout and mutation request carries that token and goes to that url.    *)
(***************************************************************************)
C9_SessionImmutable ==
    [][ /\ session /= <<>> => session' = session
        /\ (session = <<>> /\ session' /= <<>>) =>
              /\ lastBody' /= <<>>
              /\ PatternPlaces(lastBody'[1]) /= {}
              /\ \E i \in PatternPlaces(lastBody'[1]) :
                    session'[1].token = [k \in 1..32 |-> lastBody'[1][i + 7 + k]]
              /\ session'[1].url = reqLog'[1].url[1]
        /\ session' /= <<>> =>
              \A i \in 1..Len(reqLog') : CarriesSession(reqLog'[i], session'[1])
      ]_vars

C9_Witness ==
    /\ session /= <<>>
    /\ routerSession = <<>>
    /\ op = "set"
    /\ result = "Ok"
    /\ action_result /= 0
    /\ reqLog[1].payload["token"] = session[1].token

MadeFrom(e, r) ==
    /\ e.payload["srvname"] = r.description
    /\ e.payload["protocol"] = r.protocol
    /\ ParsePort(e.payload["exPort"]) = r.ex_port
    /\ ParsePort(e.payload["inPort"]) = r.in_port
    /\ e.payload["client"] = IF e.action = "Delete" THEN r.client ELSE upd.new_ip

(***************************************************************************)
(* C10.  update_port_forwarding_rule issues mutation requests only for     *)
(* rules whose client is old_ip, also when old_ip = new_ip and when        *)
(* several rules match: it never issues more Deletes than the table has    *)
(* such rules, nor more Adds than Deletes; when it returns Ok both numbers *)
(* equal the number of such rules; and every request is made from such a   *)
(* rule of the table (a Delete carries the rule, an Add the rule with      *)
(* new_ip for its client).                                                 *)
(***************************************************************************)
C10_OnlyMatchingRules ==
    op = "update" =>
        LET k == Cardinality(Holding(router0, upd.old_ip)) IN
        /\ NumDeletes <= k
        /\ NumAdds <= NumDeletes
        /\ NumDeletes + NumAdds = Len(SetLog)
        /\ (pc = "idle" /\ result = "Ok") => NumDeletes = k /\ NumAdds = k
        /\ \A i \in 1..Len(SetLog) :
              \E e \in Holding(router0, upd.old_ip) : MadeFrom(SetLog[i], e.rule)

C10_Witness ==
    /\ UpdateReturned
    /\ result = "Ok"
    /\ upd.old_ip = upd.new_ip
    /\ NumDeletes = 2
    /\ NumAdds = 2
    /\ router0 /= router

====
